---- MODULE Spec2Model ----
(***************************************************************************)
(* The client-side network-interception cache of the nexasec frontend.     *)
(* Two service workers implement it:                                       *)
(*   "ts"  src/frontend/src/service-worker.ts                              *)
(*   "js"  src/frontend/public/service-worker.js  (lines 1-109)            *)
(* The variable impl says which of the two is deployed; every handler is   *)
(* modelled once per implementation, split at its await points.            *)
(* The page-side session code is modelled next to it (SpecClient):         *)
(*   the axios response interceptor and handleLogout of the api client     *)
(*         src/frontend/public/service-worker.js  (lines 110 onwards)      *)
(*   the route guard  src/frontend/middleware.ts                           *)
(***************************************************************************)
EXTENDS Integers, Sequences, FiniteSets, TLC

VARIABLES
    impl,            \* which service worker file is deployed
    phase,           \* lifecycle state of the worker
    installResult,   \* the promise handed to the install event's waitUntil
    activateResult,  \* the promise handed to the activate event's waitUntil
    preload,         \* per PreloadSet URL: its own fetch-and-store outcome
    deleting,        \* namespaces whose caches.delete() is in flight
    flags,           \* skipWaiting() called / sweep started / clients.claim() called
    caches,          \* CacheStorage: namespace name -> cache
    tasks,           \* one record per dispatched fetch event, in dispatch order
    cookies,         \* which of auth_token, refresh_token, user_data are set
    stack,           \* api client: the requests of one call, innermost last
    settled,         \* how the innermost request's promise settled, if it has
    outcome,         \* the promise the caller of the api client holds
    cause,           \* which branch of the interceptor rejected
    nrefresh,        \* POST /auth/refresh requests issued for the current call
    nav              \* the last navigation and what the route guard answered

lifeVars == <<phase, installResult, activateResult, preload, deleting, flags>>
workerVars == <<impl, phase, installResult, activateResult, preload, deleting,
                flags, caches, tasks>>
clientVars == <<cookies, stack, settled, outcome, cause, nrefresh, nav>>
vars == <<impl, phase, installResult, activateResult, preload, deleting, flags,
          caches, tasks, cookies, stack, settled, outcome, cause, nrefresh, nav>>

----------------------------------------------------------------------------
(* Bounds *)

\* fetch events dispatched to the worker in one behaviour
MaxEvents == 2

\* POST /auth/refresh requests the model follows for one call of the api client
MaxRefreshes == 3

----------------------------------------------------------------------------
(* Values *)

Impls == {"ts", "js"}

CACHE_NAME == "nexa-security-cache-v1"
\* a namespace left behind by an earlier deployed version of the worker
STALE_NAME == "nexa-security-cache-v0"
Names == <<STALE_NAME, CACHE_NAME>>
NameSet == {STALE_NAME, CACHE_NAME}

\* sw.location.origin
SelfOrigin == "https://app.nexasec"

U_SCANS    == "https://app.nexasec/api/scans"
U_MAP      == "https://app.nexasec/api/network/map"
U_ROOT     == "https://app.nexasec/"
U_MANIFEST == "https://app.nexasec/manifest.json"
U_CROSS    == "https://api.nexasec/api/v1/scans"
U_EXT      == "chrome-extension://ext/inject.js"
Urls == {U_SCANS, U_MAP, U_ROOT, U_MANIFEST, U_CROSS, U_EXT}

\* new URL(req.url).protocol
Protocol(url) == IF url = U_EXT THEN "chrome-extension:" ELSE "https:"
\* new URL(req.url).origin
Origin(url) ==
    CASE url = U_CROSS -> "https://api.nexasec"
      [] url = U_EXT   -> "chrome-extension://ext"
      [] OTHER         -> SelfOrigin

\* the PreloadSet of each worker, resolved against the worker's origin
urlsToCache ==
    [ts |-> <<U_MAP, U_SCANS>>, js |-> <<U_ROOT, U_MANIFEST>>]
PreloadUrls(im) == {urlsToCache[im][k] : k \in 1..Len(urlsToCache[im])}

Resp(s, t, b) == [status |-> s, type |-> t, body |-> b]
\* undefined: no value yet / no entry
None     == Resp(-1, "none", "none")
\* a rejected promise
Rejected == Resp(-2, "rejected", "none")
\* fetch() rejected: no response obtainable
NetFail  == Resp(-3, "neterror", "none")
\* the response synthesized at service-worker.ts:55-58
R503 == Resp(503, "default", "Network request failed and no cache available")

\* what the stale namespace holds for U_SCANS when it exists
StaleResp == Resp(200, "basic", "b0")

Bodies == {"b1", "b2"}

\* What the network may answer, per URL.  A same-origin URL answers "basic"
\* unless it redirects to another origin ("cors"); another origin answers
\* "cors" or, in no-cors mode, "opaque" with status 0.
NetOutcomes(url) ==
    CASE url = U_SCANS ->
           {Resp(200, "basic", b) : b \in Bodies}
             \cup {Resp(204, "basic", "b1"), Resp(404, "basic", "b1"),
                   Resp(200, "cors", "b1"), NetFail}
      [] url = U_CROSS ->
           {Resp(200, "cors", "b1"), Resp(0, "opaque", "b1"), NetFail}
      [] url = U_EXT ->
           {Resp(200, "basic", "b1"), NetFail}
      [] OTHER ->
           {Resp(200, "basic", "b1"), Resp(404, "basic", "b1"), NetFail}

\* Response.ok
IsOk(r) == r.status >= 200 /\ r.status <= 299

EmptyEntries == [u \in Urls |-> None]
AbsentCache == [exists |-> FALSE, entries |-> EmptyEntries]
EmptyCache  == [exists |-> TRUE, entries |-> EmptyEntries]

\* caches.open(name): the namespace is created when it does not exist
Opened(cs, name) ==
    IF cs[name].exists THEN cs ELSE [cs EXCEPT ![name] = EmptyCache]

\* variant: a put that keeps an entry that is already there
PutIfAbsent(cs, name, url, r) ==
    IF Opened(cs, name)[name].entries[url] # None
    THEN Opened(cs, name)
    ELSE [Opened(cs, name) EXCEPT ![name].entries[url] = r]

\* variant: a put that lands in the namespace of the earlier version
PutElsewhere(cs, name, url, r) ==
    [Opened(cs, STALE_NAME) EXCEPT ![STALE_NAME].entries[url] = r]

\* cache.put(request, response) on an opened cache, when it succeeds
Put(cs, name, url, r) ==
    [Opened(cs, name) EXCEPT ![name].entries[url] = r]

\* cache.put rejects with a TypeError for a scheme other than http(s)
PutAllowed(url) == Protocol(url) \in {"http:", "https:"}

----------------------------------------------------------------------------
(* Initial state: a worker file has been deployed and not yet installed.   *)
(* An earlier version may have left its namespace behind.                  *)

\* no navigation has been made
NoNav == [path |-> "", cookie |-> FALSE, action |-> "none", to |-> "",
          next |-> "", inspected |-> FALSE]

NoCookies == [auth_token |-> FALSE, refresh_token |-> FALSE,
              user_data |-> FALSE]

\* the api client has made no call
ClientIdle ==
    /\ stack = <<>>
    /\ settled = "none"
    /\ outcome = "idle"
    /\ cause = "none"
    /\ nrefresh = 0
    /\ nav = NoNav

Init ==
    /\ cookies = NoCookies
    /\ ClientIdle
    /\ impl \in Impls
    /\ phase = "uninstalled"
    /\ installResult = "pending"
    /\ activateResult = "pending"
    /\ preload = [u \in PreloadUrls(impl) |-> "todo"]
    /\ deleting = {}
    /\ flags = [skipWaiting |-> FALSE, swept |-> FALSE, claimed |-> FALSE]
    /\ \E stale \in {AbsentCache,
                     [EmptyCache EXCEPT !.entries[U_SCANS] = StaleResp]} :
          caches = [n \in NameSet |->
                      IF n = STALE_NAME THEN stale ELSE AbsentCache]
    /\ tasks = <<>>

----------------------------------------------------------------------------
(* Lifecycle Controller *)

\* variant: the chain without its final catch handler
InstallSettledNoCatch(rejected) ==
    IF rejected THEN "rejected" ELSE "resolved"

\* The promise given to the install event's waitUntil: both workers end the
\* chain with a catch handler that returns normally, so a rejection of
\* caches.open / addAll / skipWaiting is turned into fulfilment.
InstallSettled(rejected) ==
    IF rejected THEN "resolved" ELSE "resolved"

\* the browser discards a worker whose install promise rejects
AfterInstall(result) ==
    IF result = "resolved" THEN "installed" ELSE "redundant"

\* install event, up to the settling of caches.open(CACHE_NAME); when the
\* open rejects no preload entry is attempted
InstallEvent ==
    /\ phase = "uninstalled"
    /\ phase' = "installing"
    /\ \E openOk \in BOOLEAN :
          IF openOk
          THEN /\ caches' = Opened(caches, CACHE_NAME)
               /\ UNCHANGED preload
          ELSE /\ preload' = [u \in DOMAIN preload |-> "skipped"]
               /\ UNCHANGED caches
    /\ UNCHANGED <<clientVars, impl, installResult, activateResult, deleting, flags, tasks>>

\* cache.add(url) / one request of cache.addAll: the fetched response is
\* accepted only with an ok status
AddAccepts(r) == r # NetFail /\ IsOk(r)

\* service-worker.ts: cache.addAll(urlsToCache) fetches every URL and stores
\* the batch only when every fetch was accepted and the batch write succeeds;
\* otherwise it rejects and stores nothing.
AddAllStores(own) == \A u \in DOMAIN own : own[u] = "ok"

AddAll ==
    /\ impl = "ts"
    /\ phase = "installing"
    /\ \A u \in DOMAIN preload : preload[u] = "todo"
    /\ \E o \in [PreloadUrls("ts") -> UNION {NetOutcomes(u) : u \in PreloadUrls("ts")}],
          putOk \in BOOLEAN :
          /\ \A u \in PreloadUrls("ts") : o[u] \in NetOutcomes(u)
          /\ LET own == [u \in PreloadUrls("ts") |->
                           IF AddAccepts(o[u]) /\ putOk THEN "ok" ELSE "failed"]
                 stored == AddAllStores(own)
             IN /\ preload' = own
                /\ caches' = IF stored
                             THEN [caches EXCEPT ![CACHE_NAME].entries =
                                     [u \in Urls |->
                                        IF u \in PreloadUrls("ts") THEN o[u]
                                        ELSE caches[CACHE_NAME].entries[u]]]
                             ELSE caches
    /\ UNCHANGED <<clientVars, impl, phase, installResult, activateResult, deleting, flags,
                   tasks>>

\* service-worker.js: cache.add(url).catch(...) for one URL of the PreloadSet
CacheAdd(u) ==
    /\ impl = "js"
    /\ phase = "installing"
    /\ preload[u] = "todo"
    /\ \E o \in NetOutcomes(u), putOk \in BOOLEAN :
          IF AddAccepts(o) /\ putOk
          THEN /\ caches' = Put(caches, CACHE_NAME, u, o)
               /\ preload' = [preload EXCEPT ![u] = "ok"]
          ELSE /\ preload' = [preload EXCEPT ![u] = "failed"]
               /\ UNCHANGED caches
    /\ UNCHANGED <<clientVars, impl, phase, installResult, activateResult, deleting, flags,
                   tasks>>

\* Whether the install chain reaches its final catch handler rejected.
\*   ts: caches.open or cache.addAll rejected
\*   js: caches.open rejected (every cache.add has its own catch, and
\*       Promise.allSettled never rejects)
InstallChainRejected(im, pre) ==
    IF im = "ts"
    THEN \E u \in DOMAIN pre : pre[u] # "ok"
    ELSE \E u \in DOMAIN pre : pre[u] = "skipped"

\* The promise given to waitUntil settles.
\*   ts: .then(cache => cache.addAll(...)).catch(() => void 0)
\*   js: Promise.allSettled(...).then(() => self.skipWaiting()).catch(...)
InstallSettle ==
    /\ phase = "installing"
    /\ \A u \in DOMAIN preload : preload[u] # "todo"
    /\ flags' = [flags EXCEPT !.skipWaiting =
                    impl = "js" /\ \A u \in DOMAIN preload : preload[u] # "skipped"]
    /\ installResult' = InstallSettled(InstallChainRejected(impl, preload))
    /\ phase' = AfterInstall(installResult')
    /\ UNCHANGED <<clientVars, impl, activateResult, preload, deleting, caches, tasks>>

\* caches.keys().then(names => names.map(... caches.delete(name)))
StaleKeys(cs) == {n \in NameSet : cs[n].exists /\ n # CACHE_NAME}

\* activate event.  service-worker.ts registers no activate listener: the
\* worker passes through activating with the store untouched.
\* service-worker.js enumerates the namespaces and starts one caches.delete
\* per namespace other than CACHE_NAME (the sweep).
Activate ==
    /\ phase = "installed"
    /\ phase' = "activating"
    /\ IF impl = "ts"
       THEN UNCHANGED <<deleting, flags>>
       ELSE /\ deleting' = StaleKeys(caches)
            /\ flags' = [flags EXCEPT !.swept = TRUE]
    /\ UNCHANGED <<clientVars, impl, installResult, activateResult, preload, caches, tasks>>

\* one caches.delete(name) settles; a rejection rejects Promise.all at once
CachesDelete(n) ==
    /\ n \in deleting
    /\ deleting' = deleting \ {n}
    /\ \E ok \in BOOLEAN :
          IF ok
          THEN /\ caches' = [caches EXCEPT ![n] = AbsentCache]
               /\ UNCHANGED activateResult
          ELSE /\ activateResult' = "rejected"
               /\ UNCHANGED caches
    /\ UNCHANGED <<clientVars, impl, phase, installResult, preload, flags, tasks>>

\* The worker becomes active.
\*   ts: no listener, nothing to wait for, no clients.claim()
\*   js: Promise.all(...) settles; .then(() => self.clients.claim()) runs
\*       only when no delete rejected; the worker becomes active either way
ActivateSettle ==
    /\ phase = "activating"
    /\ \/ /\ impl = "ts"
          /\ activateResult' = "resolved"
          /\ UNCHANGED flags
       \/ /\ impl = "js"
          /\ activateResult = "rejected"
          /\ UNCHANGED <<activateResult, flags>>
       \/ /\ impl = "js"
          /\ activateResult = "pending"
          /\ deleting = {}
          /\ activateResult' = "resolved"
          /\ flags' = [flags EXCEPT !.claimed = TRUE]
    /\ phase' = "active"
    /\ UNCHANGED <<clientVars, impl, installResult, preload, deleting, caches, tasks>>

Lifecycle ==
    \/ InstallEvent
    \/ AddAll
    \/ \E u \in DOMAIN preload : CacheAdd(u)
    \/ InstallSettle
    \/ Activate
    \/ \E n \in NameSet : CachesDelete(n)
    \/ ActivateSettle

----------------------------------------------------------------------------
(* Scope Filter *)

Req(m, u) == [method |-> m, url |-> u]
Requests == {Req("GET", U_SCANS), Req("POST", U_SCANS),
             Req("GET", U_CROSS), Req("GET", U_EXT)}

\* The checks that precede event.respondWith.
\*   ts: method, protocol and origin (lines 28-30)
\*   js: method only (lines 61-63)
InScope(im, req) ==
    IF im = "ts"
    THEN /\ req.method = "GET"
         /\ Protocol(req.url) \in {"http:", "https:"}
         /\ Origin(req.url) = SelfOrigin
    ELSE req.method = "GET"

----------------------------------------------------------------------------
(* Interception Policy Engine and Revalidation Scheduler *)

\* One record per fetch event.
\*   st     where the promise given to respondWith stands
\*   kind   pass (no respondWith) / pending / hit / miss / fault (store error)
\*   cached what the lookup found, None on a miss
\*   net    what this event's fetch() produced (MISS fetch or revalidation)
\*   resp   what the caller received: None while pending, Rejected, or a response
\*   bg     work that is not awaited: revalidation fetch, detached put;
\*          "cancelled" when the worker was stopped before it ended
\*   val    the response a pending put is writing
\*   wr     how the put of this event ended
\*   unhandled  a rejection of this event's put was left without a handler
\*   nread / nfetch / nput   store reads, fetch() calls, put attempts
\*   prior  the earlier events already answered when this one was dispatched
NewTask(req, intercepted, before) ==
    [req |-> req,
     st |-> IF intercepted THEN "lookup" ELSE "done",
     kind |-> IF intercepted THEN "pending" ELSE "pass",
     cached |-> None, net |-> None, resp |-> None,
     bg |-> "none", val |-> None, wr |-> "none",
     unhandled |-> FALSE,
     nread |-> 0, nfetch |-> 0, nput |-> 0,
     prior |-> before]

\* fetch event: scope checks, then respondWith(...) or a plain return
FetchEvent(req) ==
    /\ phase = "active"
    /\ Len(tasks) < MaxEvents
    /\ tasks' = Append(tasks,
                  NewTask(req, InScope(impl, req),
                          {j \in 1..Len(tasks) : tasks[j].resp # None}))
    /\ UNCHANGED <<clientVars, impl, lifeVars, caches>>

\* first namespace, in creation order, holding an entry for url
RECURSIVE FirstMatch(_, _, _)
FirstMatch(cs, url, k) ==
    IF k > Len(Names) THEN None
    ELSE IF cs[Names[k]].exists /\ cs[Names[k]].entries[url] # None
         THEN cs[Names[k]].entries[url]
         ELSE FirstMatch(cs, url, k + 1)

\* ts: cache.match(req) on the opened CACHE_NAME (line 36)
\* js: caches.match(event.request), over every namespace (line 66)
Match(im, cs, url) ==
    IF im = "ts"
    THEN Opened(cs, CACHE_NAME)[CACHE_NAME].entries[url]
    ELSE FirstMatch(cs, url, 1)

\* variant: the lookup takes the entry out of the store
AfterMatchEvict(im, cs, url) ==
    [Opened(cs, CACHE_NAME) EXCEPT ![CACHE_NAME].entries[url] = None]

\* the store after a lookup: caches.open (ts) creates the namespace when it
\* is missing; match itself changes nothing
AfterMatch(im, cs, url) ==
    IF im = "ts" THEN Opened(cs, CACHE_NAME) ELSE cs

\* variant: the HIT path awaits the network before answering
ServeHitBlocking(t, c) ==
    [t EXCEPT !.st = "fetch", !.kind = "hit", !.cached = c,
              !.nfetch = @ + 1]

\* variant: the HIT path answers from the store and starts no fetch
ServeHitNoReval(t, c) ==
    [t EXCEPT !.st = "done", !.kind = "hit", !.cached = c, !.resp = c]

\* HIT: the revalidation fetch is started and the stored response returned
ServeHit(t, c) ==
    [t EXCEPT !.st = "done", !.kind = "hit", !.cached = c, !.resp = c,
              !.bg = "fetch", !.nfetch = @ + 1]

\* variant: a MISS that joins a fetch already in flight and starts none
StartMissJoined(t) ==
    [t EXCEPT !.st = "fetch", !.kind = "miss"]

\* MISS: the network fetch is started and awaited
StartMiss(t) ==
    [t EXCEPT !.st = "fetch", !.kind = "miss", !.nfetch = @ + 1]

\* a rejection of caches.open / match is caught nowhere in either worker
StoreFault(t) ==
    [t EXCEPT !.st = "done", !.kind = "fault", !.resp = Rejected]

\* caches.open + cache.match (ts) / caches.match (js), and what follows
\* without a further await
Lookup(i) ==
    /\ i \in 1..Len(tasks)
    /\ tasks[i].st = "lookup"
    /\ \E storeOk \in BOOLEAN :
          LET t == [tasks[i] EXCEPT !.nread = @ + 1]
              c == Match(impl, caches, t.req.url)
          IN IF ~storeOk
             THEN /\ tasks' = [tasks EXCEPT ![i] = StoreFault(t)]
                  /\ UNCHANGED caches
             ELSE /\ tasks' = [tasks EXCEPT ![i] =
                                 IF c # None THEN ServeHit(t, c)
                                 ELSE StartMiss(t)]
                  /\ caches' = AfterMatch(impl, caches, t.req.url)
    /\ UNCHANGED <<clientVars, impl, lifeVars>>

\* variant: the MISS path stores whatever the network answered
MissCacheableAny(im, r) == r # None

\* the guard before cache.put on the MISS path
\*   ts: networkResponse && networkResponse.ok && type === 'basic' (line 50)
\*   js: !(!response || status !== 200 || type !== 'basic')       (line 86)
MissCacheable(im, r) ==
    IF im = "ts"
    THEN r # None /\ IsOk(r) /\ r.type = "basic"
    ELSE ~(r = None \/ r.status # 200 \/ r.type # "basic")

\* the guard before cache.put in the revalidation
\*   ts: networkResponse && networkResponse.ok && type === 'basic' (line 40)
\*   js: networkResponse && networkResponse.status === 200         (line 72)
RevalCacheable(im, r) ==
    IF im = "ts"
    THEN r # None /\ IsOk(r) /\ r.type = "basic"
    ELSE r # None /\ r.status = 200

\* what the MISS path answers when fetch() rejects
\*   ts: catch { return new Response(..., {status: 503}) }  (lines 54-58)
\*   js: .catch(error => { throw error })                   (lines 103-106)
MissFailure(im) == IF im = "ts" THEN R503 ELSE Rejected

\* the awaited network fetch of the MISS path settles
MissFetchResolve(i) ==
    /\ i \in 1..Len(tasks)
    /\ tasks[i].st = "fetch"
    /\ \E o \in NetOutcomes(tasks[i].req.url) :
          LET t == [tasks[i] EXCEPT !.net = o]
          IN tasks' = [tasks EXCEPT ![i] =
               IF o = NetFail
               THEN [t EXCEPT !.st = "done", !.resp = MissFailure(impl)]
               ELSE IF ~MissCacheable(impl, o)
               THEN [t EXCEPT !.st = "done", !.resp = o]
               ELSE IF impl = "ts"
               THEN \* await cache.put(...) inside try/catch
                    [t EXCEPT !.st = "put", !.val = o, !.nput = @ + 1]
               ELSE \* caches.open(...).then(put) is not awaited
                    [t EXCEPT !.st = "done", !.resp = o, !.bg = "put",
                              !.val = o, !.nput = @ + 1]]
    /\ UNCHANGED <<clientVars, impl, lifeVars, caches>>

\* How a put can end.  "ok" needs an http(s) URL; the js workers' detached
\* put opens the namespace first, which can fail on its own.
PutOutcomes(im, url) ==
    (IF PutAllowed(url) THEN {"ok"} ELSE {})
      \cup {"putFail"}
      \cup (IF im = "js" THEN {"openFail"} ELSE {})

\* variant: a put that fails takes the entry of its key with it
AfterPutDropOnFail(im, cs, url, r, out) ==
    IF out = "ok"
    THEN Put(cs, CACHE_NAME, url, r)
    ELSE [Opened(cs, CACHE_NAME) EXCEPT ![CACHE_NAME].entries[url] = None]

\* the store after a put ended with outcome out
AfterPut(im, cs, url, r, out) ==
    CASE out = "ok" -> Put(cs, CACHE_NAME, url, r)
      [] out = "putFail" /\ im = "js" -> Opened(cs, CACHE_NAME)
      [] OTHER -> cs

\* Whether a failed put leaves a rejected promise without any handler.
\*   ts HIT : cache.put(...).catch(() => void 0)              (line 41)
\*   ts MISS: try { await cache.put(...) } catch { }          (line 51)
\*   js HIT : caches.open(...).then(cache => { cache.put(...) })
\*            has no catch and is not returned to the outer chain
\*                                                            (lines 73-75)
\*   js MISS: caches.open(...).then(cache => { cache.put(...) }).catch(...)
\*            catches the open; the put's promise is not returned
\*                                                            (lines 94-100)
Escapes(im, kind, out) ==
    CASE out = "ok" -> FALSE
      [] im = "ts"  -> FALSE
      [] kind = "hit" -> TRUE
      [] OTHER -> out = "putFail"

\* ts: the awaited cache.put of the MISS path settles; a rejection is ignored
MissPutSettle(i) ==
    /\ i \in 1..Len(tasks)
    /\ tasks[i].st = "put"
    /\ \E out \in PutOutcomes(impl, tasks[i].req.url) :
          /\ caches' = AfterPut(impl, caches, tasks[i].req.url,
                                tasks[i].val, out)
          /\ tasks' = [tasks EXCEPT ![i] =
                         [@ EXCEPT !.st = "done", !.resp = tasks[i].net,
                                   !.val = None,
                                   !.wr = IF out = "ok" THEN "ok" ELSE "failed",
                                   !.unhandled =
                                       Escapes(impl, tasks[i].kind, out)]]
    /\ UNCHANGED <<clientVars, impl, lifeVars>>

\* the revalidation fetch of a HIT settles
BgFetchResolve(i) ==
    /\ i \in 1..Len(tasks)
    /\ tasks[i].bg = "fetch"
    /\ \E o \in NetOutcomes(tasks[i].req.url) :
          tasks' = [tasks EXCEPT ![i] =
             IF o # NetFail /\ RevalCacheable(impl, o)
             THEN [@ EXCEPT !.net = o, !.bg = "put", !.val = o,
                            !.nput = @ + 1]
             ELSE [@ EXCEPT !.net = o, !.bg = "done"]]
    /\ UNCHANGED <<clientVars, impl, lifeVars, caches>>

\* a put that nobody awaits settles: the revalidation's put, or the js MISS
\* path's caches.open(CACHE_NAME).then(cache => cache.put(...))
BgPutSettle(i) ==
    /\ i \in 1..Len(tasks)
    /\ tasks[i].bg = "put"
    /\ \E out \in PutOutcomes(impl, tasks[i].req.url) :
          /\ caches' = AfterPut(impl, caches, tasks[i].req.url,
                                tasks[i].val, out)
          /\ tasks' = [tasks EXCEPT ![i] =
                         [@ EXCEPT !.bg = "done", !.val = None,
                                   !.wr = IF out = "ok" THEN "ok" ELSE "failed",
                                   !.unhandled =
                                       Escapes(impl, tasks[i].kind, out)]]
    /\ UNCHANGED <<clientVars, impl, lifeVars>>

\* The browser stops an idle worker.  Neither fetch listener passes the
\* revalidation (or the js workers' detached put) to event.waitUntil, so
\* once every promise given to respondWith has settled nothing keeps the
\* worker alive: work that is still in flight is dropped with it.
Stopped(t) ==
    IF t.bg \in {"fetch", "put"}
    THEN [t EXCEPT !.bg = "cancelled", !.val = None]
    ELSE t

Terminate ==
    /\ phase = "active"
    /\ \A i \in 1..Len(tasks) : tasks[i].st = "done"
    /\ \E i \in 1..Len(tasks) : tasks[i].bg \in {"fetch", "put"}
    /\ tasks' = [i \in 1..Len(tasks) |-> Stopped(tasks[i])]
    /\ UNCHANGED <<clientVars, impl, lifeVars, caches>>

Intercept ==
    \/ \E req \in Requests : FetchEvent(req)
    \/ \E i \in 1..MaxEvents : Lookup(i)
    \/ \E i \in 1..MaxEvents : MissFetchResolve(i)
    \/ \E i \in 1..MaxEvents : MissPutSettle(i)
    \/ \E i \in 1..MaxEvents : BgFetchResolve(i)
    \/ \E i \in 1..MaxEvents : BgPutSettle(i)
    \/ Terminate

Next == Lifecycle \/ Intercept
Spec == Init /\ [][Next]_vars

----------------------------------------------------------------------------
(* Route guard: src/frontend/middleware.ts *)

\* variant: a prefix test that only accepts the prefix itself
SamePath(s, p) == s = p

\* String.prototype.startsWith
StartsWith(s, p) == Len(s) >= Len(p) /\ SubSeq(s, 1, Len(p)) = p

protectedPrefixes ==
    {"/dashboard", "/profile", "/security", "/subscriptions", "/settings"}

\* the prefixes of line 11
publicPrefixes ==
    {"/auth/login", "/auth/signup", "/_next", "/api", "/favicon", "/logo"}

\* config.matcher '/((?!_next|api|favicon.ico).*)': the guard runs unless the
\* text after the first slash begins with _next, api or favicon<any>ico
MatcherMatches(pathname) ==
    ~ \/ StartsWith(pathname, "/_next")
      \/ StartsWith(pathname, "/api")
      \/ /\ Len(pathname) >= 12
         /\ SubSeq(pathname, 1, 8) = "/favicon"
         /\ SubSeq(pathname, 10, 12) = "ico"

\* NextResponse.next()
Through(pathname, hasCookie, looked) ==
    [path |-> pathname, cookie |-> hasCookie, action |-> "next", to |-> "",
     next |-> "", inspected |-> looked]

\* NextResponse.redirect(url) with url.pathname = '/auth/login' and the
\* search parameter next = pathname
Redirect(pathname, hasCookie) ==
    [path |-> pathname, cookie |-> hasCookie, action |-> "redirect",
     to |-> "/auth/login", next |-> pathname, inspected |-> TRUE]

middleware(pathname, hasCookie) ==
    IF \E q \in publicPrefixes : StartsWith(pathname, q)
    THEN Through(pathname, hasCookie, FALSE)
    ELSE IF \E q \in protectedPrefixes : StartsWith(pathname, q)
         THEN IF ~hasCookie
              THEN Redirect(pathname, hasCookie)
              ELSE Through(pathname, hasCookie, TRUE)
         ELSE Through(pathname, hasCookie, FALSE)

\* what a navigation to pathname gets: the guard's answer when the matcher
\* selects the path, the page itself otherwise
Guard(pathname, hasCookie) ==
    IF MatcherMatches(pathname)
    THEN middleware(pathname, hasCookie)
    ELSE Through(pathname, hasCookie, FALSE)

Paths ==
    {"/dashboard", "/dashboard/scans", "/profile", "/security/alerts",
     "/subscriptions", "/settings", "/settings-old",
     "/auth/login", "/auth/login/reset", "/auth/signup",
     "/_next/static/app.js", "/api/scans", "/favicon.ico", "/favicon-32.png",
     "/logo.svg",
     "/", "/about", "/auth/forgot-password", "/Dashboard"}

\* the browser requests a page
Navigate(pathname) ==
    /\ nav' = Guard(pathname, cookies.auth_token)
    /\ UNCHANGED <<workerVars, cookies, stack, settled, outcome, cause,
                   nrefresh>>

----------------------------------------------------------------------------
(* Api client: the response interceptor of apiClient and handleLogout,     *)
(* src/frontend/public/service-worker.js lines 159-245                     *)

\* error.response?.status; 0 stands for no response at all
Statuses == {200, 401, 500, 0}

\* one request made through apiClient: its config (_retry), where it
\* stands, and how many times it has been sent
Frame(req) == [req |-> req, retry |-> FALSE, st |-> "sent", nsent |-> 1]

Top == stack[Len(stack)]
SetTop(f) == [stack EXCEPT ![Len(stack)] = f]

\* variant: a logout that leaves the user_data cookie
handleLogoutKeepsUser(c) ==
    [c EXCEPT !.auth_token = FALSE, !.refresh_token = FALSE]

\* handleLogout: the three deleteCookie calls
handleLogout(c) ==
    [auth_token |-> FALSE, refresh_token |-> FALSE, user_data |-> FALSE]

\* handleLogout: window.location.href = '/auth/login'
LogoutNav(c) == Guard("/auth/login", handleLogout(c).auth_token)

\* a component calls the api client
StartCall ==
    /\ outcome # "pending"
    /\ stack' = <<Frame("orig")>>
    /\ settled' = "none"
    /\ outcome' = "pending"
    /\ cause' = "none"
    /\ nrefresh' = 0
    /\ UNCHANGED <<workerVars, cookies, nav>>

InFlight ==
    /\ outcome = "pending"
    /\ settled = "none"
    /\ stack # <<>>
    /\ Top.st \in {"sent", "resent"}

\* the server answers 2xx: (response) => response
RequestSucceeds ==
    /\ InFlight
    /\ settled' = "resolved"
    /\ UNCHANGED <<workerVars, cookies, stack, outcome, cause, nrefresh, nav>>

\* the server answers 401 to a request whose _retry is not set: the flag is
\* set; without a refresh_token cookie the try block throws and the catch
\* logs out and rejects; otherwise POST /auth/refresh goes out through the
\* same apiClient and is awaited
InterceptUnauthorized ==
    /\ InFlight
    /\ ~Top.retry
    /\ IF ~cookies.refresh_token
       THEN /\ stack' = SetTop([Top EXCEPT !.retry = TRUE])
            /\ cookies' = handleLogout(cookies)
            /\ nav' = LogoutNav(cookies)
            /\ settled' = "rejected"
            /\ cause' = "refresh"
            /\ UNCHANGED nrefresh
       ELSE /\ nrefresh < MaxRefreshes
            /\ stack' = Append(SetTop([Top EXCEPT !.retry = TRUE,
                                                  !.st = "awaiting"]),
                               Frame("refresh"))
            /\ nrefresh' = nrefresh + 1
            /\ UNCHANGED <<cookies, nav, settled, cause>>
    /\ UNCHANGED <<workerVars, outcome>>

\* any other failure (a 401 with _retry set, another status, no response):
\* handleApiError(error); return Promise.reject(error)
InterceptOtherError(status) ==
    /\ InFlight
    /\ status # 200
    /\ status = 401 => Top.retry
    /\ settled' = "rejected"
    /\ cause' = "api"
    /\ UNCHANGED <<workerVars, cookies, stack, outcome, nrefresh, nav>>

\* the awaited POST /auth/refresh has settled and the interceptor that
\* issued it goes on: with the new tokens stored it sends its own request
\* again (return apiClient(originalRequest)); on a rejection its catch block
\* logs out and rejects
RefreshSettled ==
    /\ settled # "none"
    /\ Len(stack) > 1
    /\ LET rest == SubSeq(stack, 1, Len(stack) - 1)
           parent == rest[Len(rest)]
       IN IF settled = "resolved"
          THEN /\ cookies' = [cookies EXCEPT !.auth_token = TRUE,
                                             !.refresh_token = TRUE]
               /\ stack' = [rest EXCEPT ![Len(rest)] =
                              [parent EXCEPT !.st = "resent",
                                             !.nsent = @ + 1]]
               /\ settled' = "none"
               /\ UNCHANGED <<cause, nav>>
          ELSE /\ cookies' = handleLogout(cookies)
               /\ nav' = LogoutNav(cookies)
               /\ stack' = rest
               /\ cause' = "refresh"
               /\ UNCHANGED settled
    /\ UNCHANGED <<workerVars, outcome, nrefresh>>

\* the promise of the original request settles for the caller
CallSettled ==
    /\ settled # "none"
    /\ Len(stack) = 1
    /\ outcome' = settled
    /\ stack' = SetTop([Top EXCEPT !.st = "done"])
    /\ settled' = "none"
    /\ UNCHANGED <<workerVars, cookies, cause, nrefresh, nav>>

ApiClient ==
    \/ StartCall
    \/ RequestSucceeds
    \/ InterceptUnauthorized
    \/ \E status \in Statuses : InterceptOtherError(status)
    \/ RefreshSettled
    \/ CallSettled

\* the page is open; the service worker plays no part
InitClient ==
    /\ cookies \in [{"auth_token", "refresh_token", "user_data"} -> BOOLEAN]
    /\ ClientIdle
    /\ impl = "js"
    /\ phase = "uninstalled"
    /\ installResult = "pending"
    /\ activateResult = "pending"
    /\ preload = [u \in PreloadUrls(impl) |-> "todo"]
    /\ deleting = {}
    /\ flags = [skipWaiting |-> FALSE, swept |-> FALSE, claimed |-> FALSE]
    /\ caches = [n \in NameSet |-> AbsentCache]
    /\ tasks = <<>>

NextClient ==
    \/ \E pathname \in Paths : Navigate(pathname)
    \/ ApiClient

SpecClient == InitClient /\ [][NextClient]_vars

----------------------------------------------------------------------------
(* Vocabulary of the properties *)

\* a request the Scope Filter admits: retrieval method, network scheme,
\* the layer's own origin
Eligible(req) ==
    /\ req.method = "GET"
    /\ Protocol(req.url) \in {"http:", "https:"}
    /\ Origin(req.url) = SelfOrigin

\* a response that may be stored: success status and same-origin/basic
SuccessBasic(r) ==
    /\ r.status >= 200 /\ r.status <= 299
    /\ r.type = "basic"

Events == 1..Len(tasks)
Installed == phase \in {"installed", "activating", "active"}

----------------------------------------------------------------------------
(* Properties *)

\* C1: a request that is not GET, or not http(s), or not of the layer's own
\* origin is passed through untouched: no respondWith, no store read or
\* write, no fetch issued by the layer.
C1_ScopePassThrough ==
    \A i \in Events :
        ~Eligible(tasks[i].req) =>
            /\ tasks[i].kind = "pass"
            /\ tasks[i].nread = 0
            /\ tasks[i].nfetch = 0
            /\ tasks[i].nput = 0

\* C2: when an eligible request misses the store and its network fetch
\* fails, the caller receives the synthesized 503 response; the handler's
\* promise never rejects.
C2_MissNetworkFailure ==
    \A i \in Events :
        (Eligible(tasks[i].req) /\ tasks[i].kind = "miss"
            /\ tasks[i].net = NetFail)
        => tasks[i].resp = R503

\* C3: every entry of the current namespace holds a response with a success
\* status and type basic.
C3_StoreInvariant ==
    \A u \in Urls :
        caches[CACHE_NAME].entries[u] # None
        => SuccessBasic(caches[CACHE_NAME].entries[u])

\* C4: on a HIT the caller has the stored response as soon as the lookup has
\* settled, whatever the state of the revalidation (in flight, writing,
\* finished), and that response is the entry the lookup found.
C4_HitDoesNotBlock ==
    \A i \in Events :
        tasks[i].kind = "hit" =>
            /\ tasks[i].st = "done"
            /\ tasks[i].cached # None
            /\ tasks[i].resp = tasks[i].cached

\* C4 witness: a HIT answered while its revalidation fetch is still in flight
C4_Witness ==
    \E i \in Events :
        /\ Eligible(tasks[i].req)
        /\ tasks[i].kind = "hit"
        /\ tasks[i].bg = "fetch"
        /\ tasks[i].resp = tasks[i].cached
        /\ tasks[i].resp # None

\* C5: a first eligible request that missed did exactly one network fetch,
\* and when its response was cacheable an identical request dispatched after
\* that response was returned is answered from the store.  Stated for the
\* runs in which the first request's write did not fail and the second
\* lookup could read the store.
C5_MissThenHit ==
    \A j \in Events : \A i \in tasks[j].prior :
        (/\ Eligible(tasks[i].req)
         /\ tasks[j].req = tasks[i].req
         /\ tasks[i].kind = "miss"
         /\ SuccessBasic(tasks[i].resp)
         /\ tasks[i].wr # "failed"
         /\ tasks[j].kind \notin {"pending", "fault"})
        => /\ tasks[i].nfetch = 1
           /\ tasks[j].kind = "hit"

\* C6: once activation has finished, every namespace whose identifier
\* differs from the current version has been deleted.
C6_ActivationCleanup ==
    phase = "active" =>
        \A n \in NameSet \ {CACHE_NAME} : ~caches[n].exists

\* C7: the install step never fails: the promise given to waitUntil is never
\* rejected, the worker is never discarded, and once installation is over
\* the promise is resolved, whichever preload entries failed.
C7_InstallNeverFails ==
    /\ installResult # "rejected"
    /\ phase # "redundant"
    /\ Installed => installResult = "resolved"

\* C7 witness: installation completed although a preload entry failed
C7_Witness ==
    /\ phase = "installed"
    /\ installResult = "resolved"
    /\ \E u \in DOMAIN preload : preload[u] = "failed"

\* C8: right after installation, every preload URL whose own fetch and store
\* succeeded has an entry and every URL that failed has none.
C8_PreloadIndependent ==
    phase = "installed" =>
        \A u \in DOMAIN preload :
            /\ preload[u] = "ok" => caches[CACHE_NAME].entries[u] # None
            /\ preload[u] = "failed" => caches[CACHE_NAME].entries[u] = None

\* C9: a request answered from the store has caused exactly one fetch() call,
\* the background revalidation, at every moment from the answer on.
C9_HitRevalidatesOnce ==
    \A i \in Events :
        tasks[i].kind = "hit" =>
            /\ tasks[i].nfetch = 1
            /\ tasks[i].bg # "none"

\* C9 witness: a HIT whose revalidation has run to its end
C9_Witness ==
    \E i \in Events :
        /\ Eligible(tasks[i].req)
        /\ tasks[i].kind = "hit"
        /\ tasks[i].bg = "done"
        /\ tasks[i].nfetch = 1

\* C10: an eligible MISS whose network response has a success status and
\* type basic attempts exactly one put; any other MISS attempts none.
C10_MissWritesOnce ==
    \A i \in Events :
        (Eligible(tasks[i].req) /\ tasks[i].kind = "miss"
            /\ tasks[i].net # None)
        => tasks[i].nput = IF SuccessBasic(tasks[i].net) THEN 1 ELSE 0

\* C11: a revalidation never surfaces an error: whatever the background
\* fetch and the store open/put do, no rejection is left unhandled and the
\* response returned for the HIT stays the stored one.
C11_RevalidationSilent ==
    \A i \in Events :
        tasks[i].kind = "hit" =>
            /\ ~tasks[i].unhandled
            /\ tasks[i].resp = tasks[i].cached

\* C12: when the put of a cacheable MISS fails, the failure is caught and
\* the caller still receives the fetched response.
C12_MissWriteFailureIgnored ==
    \A i \in Events :
        (Eligible(tasks[i].req) /\ tasks[i].kind = "miss"
            /\ tasks[i].wr = "failed")
        => /\ ~tasks[i].unhandled
           /\ tasks[i].resp = tasks[i].net

\* C13: a failure to open or read the store never rejects the handler's
\* promise for an eligible request.
C13_StoreUnavailableDegrades ==
    \A i \in Events :
        (Eligible(tasks[i].req) /\ tasks[i].kind = "fault")
        => tasks[i].resp # Rejected

\* C14: in service-worker.js, activation completes whatever the deletes
\* did: once the worker is active the activation promise is resolved and
\* clients.claim() has been called.
C14_DeleteFailureDoesNotBlock ==
    (impl = "js" /\ phase = "active") =>
        /\ activateResult = "resolved"
        /\ flags.claimed

\* C15: serving a HIT answers with the entry the store holds at that moment
\* and leaves the store as it was, so repeated identical requests get the
\* same response until a write changes the entry.
C15_HitIdempotent ==
    [][\A i \in 1..Len(tasks) :
          (tasks[i].st = "lookup" /\ tasks'[i].kind = "hit")
          => /\ caches' = caches
             /\ tasks'[i].resp = Match(impl, caches', tasks[i].req.url)]_vars

\* C15 witness: two identical eligible requests, the second dispatched after
\* the first was answered, both answered from the store with the same response
C15_Witness ==
    \E j \in Events : \E i \in tasks[j].prior :
        /\ Eligible(tasks[i].req)
        /\ tasks[j].req = tasks[i].req
        /\ tasks[i].kind = "hit"
        /\ tasks[j].kind = "hit"
        /\ tasks[j].resp = tasks[i].resp

\* C16: for a network response received by a revalidation, the revalidation
\* attempts a put exactly when the MISS path would have stored that response.
C16_SameCriteria ==
    \A i \in Events :
        (tasks[i].kind = "hit" /\ tasks[i].net \notin {None, NetFail})
        => ((tasks[i].nput = 1) <=> MissCacheable(impl, tasks[i].net))

\* C17: HIT or MISS is decided by the current namespace alone: a lookup ends
\* in a HIT only with the current namespace's entry, and in a MISS only when
\* the current namespace has none.
C17_LookupCurrentOnly ==
    [][\A i \in 1..Len(tasks) :
          tasks[i].st = "lookup" =>
            LET e == caches[CACHE_NAME].entries[tasks[i].req.url]
            IN /\ tasks'[i].kind = "hit" => (e # None /\ tasks'[i].resp = e)
               /\ tasks'[i].kind = "miss" => e = None]_vars

\* C18: a MISS whose network response is not success-status or not basic
\* gives the caller exactly that response and attempts no write.
C18_NonCacheableUnmodified ==
    \A i \in Events :
        (tasks[i].kind = "miss" /\ tasks[i].net \notin {None, NetFail}
            /\ ~SuccessBasic(tasks[i].net))
        => /\ tasks[i].st = "done"
           /\ tasks[i].resp = tasks[i].net
           /\ tasks[i].nput = 0
           /\ tasks[i].wr = "none"

\* C18 witness: an eligible MISS answered 404, handed to the caller as it is
C18_Witness ==
    \E i \in Events :
        /\ Eligible(tasks[i].req)
        /\ tasks[i].kind = "miss"
        /\ tasks[i].net = Resp(404, "basic", "b1")
        /\ tasks[i].resp = tasks[i].net
        /\ caches[CACHE_NAME].entries[tasks[i].req.url] = None

ChainSteps ==
    {<<"uninstalled", "installing">>, <<"installing", "installed">>,
     <<"installed", "activating">>, <<"activating", "active">>}

\* C19: the lifecycle moves one step at a time along uninstalled, installing,
\* installed, activating, active; Installing is left, and skipWaiting
\* called, only when no preload entry is outstanding; the worker becomes
\* active, and claims its clients, only after the stale-namespace sweep has
\* been run.
C19_LifecycleOrdering ==
    [][/\ phase' # phase => <<phase, phase'>> \in ChainSteps
       /\ (phase = "installing" /\ phase' # "installing")
             => \A u \in DOMAIN preload : preload[u] # "todo"
       /\ (~flags.skipWaiting /\ flags'.skipWaiting)
             => \A u \in DOMAIN preload : preload[u] # "todo"
       /\ (phase # "active" /\ phase' = "active") => flags.swept
       /\ (~flags.claimed /\ flags'.claimed) => flags.swept]_vars

\* C20: while the worker is active an entry changes only when a put for that
\* key completes, and it then equals exactly the snapshot of that put: the
\* write that completes last decides the entry, whatever was there before.
C20_LastWriteWins ==
    [][phase = "active" =>
         \A u \in Urls :
            LET W == {i \in 1..Len(tasks) :
                        /\ tasks[i].req.url = u
                        /\ tasks[i].wr = "none"
                        /\ tasks'[i].wr = "ok"}
            IN IF W = {}
               THEN caches'[CACHE_NAME].entries[u] = caches[CACHE_NAME].entries[u]
               ELSE \E i \in W :
                       caches'[CACHE_NAME].entries[u] = tasks[i].val]_vars

\* C20 witness: two MISSes of one key whose writes both completed with
\* different snapshots; the entry is one of the two snapshots
C20_Witness ==
    \E i \in Events : \E j \in Events :
        /\ i # j
        /\ tasks[i].req = tasks[j].req
        /\ tasks[i].kind = "miss" /\ tasks[j].kind = "miss"
        /\ tasks[i].wr = "ok" /\ tasks[j].wr = "ok"
        /\ tasks[i].net # tasks[j].net
        /\ caches[CACHE_NAME].entries[tasks[i].req.url] = tasks[i].net

\* C21: once the revalidation of a HIT has written a cacheable response R2,
\* and R2 is still the entry of the current namespace (no later write), the
\* next identical request whose lookup can read the store is answered with R2.
C21_RefreshForFutureCallers ==
    [][\A j \in 1..Len(tasks) : \A i \in 1..Len(tasks) :
          (/\ i # j
           /\ tasks[j].st = "lookup"
           /\ tasks'[j].kind \in {"hit", "miss"}
           /\ tasks[i].req = tasks[j].req
           /\ tasks[i].kind = "hit"
           /\ tasks[i].wr = "ok"
           /\ SuccessBasic(tasks[i].net)
           /\ caches[CACHE_NAME].entries[tasks[j].req.url] = tasks[i].net)
          => tasks'[j].resp = tasks[i].net]_vars

\* C22: a revalidation that has been dispatched runs to its end: it leaves
\* the fetch only towards its put or its end, and the put only towards its
\* end; neither the return of the HIT response nor any other event drops it.
C22_RevalidationCompletes ==
    [][\A i \in 1..Len(tasks) :
          /\ (tasks[i].kind = "hit" /\ tasks[i].bg = "fetch")
                => tasks'[i].bg \in {"fetch", "put", "done"}
          /\ (tasks[i].kind = "hit" /\ tasks[i].bg = "put")
                => tasks'[i].bg \in {"put", "done"}]_vars

\* a put of event i for url u completes in this step
PutCompletes(i, u) ==
    /\ tasks[i].req.url = u
    /\ tasks[i].wr = "none"
    /\ tasks'[i].wr = "ok"

\* C23 as stated: an entry is added or overwritten only by the fetch handler
\* (MISS path or revalidation), and only in the current namespace; the
\* Lifecycle Controller adds or overwrites none.
C23_OnlyEngineWrites ==
    [][\A n \in NameSet : \A u \in Urls :
          (/\ caches'[n].entries[u] # caches[n].entries[u]
           /\ caches'[n].entries[u] # None)
          => /\ n = CACHE_NAME
             /\ \E i \in 1..Len(tasks) : PutCompletes(i, u)]_vars

\* C23 amended: an entry is added or overwritten only in the current
\* namespace, and only by the install-time preload of a PreloadSet URL or by
\* a put of the fetch handler (MISS path or revalidation) for that key.
C23_StoreWriters ==
    [][\A n \in NameSet : \A u \in Urls :
          (/\ caches'[n].entries[u] # caches[n].entries[u]
           /\ caches'[n].entries[u] # None)
          => /\ n = CACHE_NAME
             /\ \/ phase = "installing" /\ u \in PreloadUrls(impl)
                \/ \E i \in 1..Len(tasks) : PutCompletes(i, u)]_vars

\* C23 witness: the current namespace holds an entry written by the preload
\* and an entry written by a put of the fetch handler
C23_Witness ==
    /\ phase = "active"
    /\ \E u \in DOMAIN preload :
          preload[u] = "ok" /\ caches[CACHE_NAME].entries[u] # None
    /\ \E i \in Events :
          /\ tasks[i].wr = "ok"
          /\ caches[CACHE_NAME].entries[tasks[i].req.url] = tasks[i].net

\* C24: a revalidation whose fetch failed, or was answered with a response
\* that is not success-status and basic, leaves the existing entry of its
\* key in the current namespace as it was in every one of its steps.
C24_FailedRevalidationKeepsEntry ==
    [][\A i \in 1..Len(tasks) :
          (/\ tasks[i].kind = "hit"
           /\ caches[CACHE_NAME].entries[tasks[i].req.url] # None
           /\ tasks'[i].bg # tasks[i].bg
           /\ tasks'[i].net # None
           /\ (tasks'[i].net = NetFail \/ ~SuccessBasic(tasks'[i].net)))
          => caches'[CACHE_NAME].entries[tasks[i].req.url]
               = caches[CACHE_NAME].entries[tasks[i].req.url]]_vars

\* C25: while the worker is active no step removes a key from the current
\* namespace, nor the namespace itself: its key set only grows.
C25_NoEviction ==
    [][phase = "active" =>
         /\ caches[CACHE_NAME].exists => caches'[CACHE_NAME].exists
         /\ \A u \in Urls :
               caches[CACHE_NAME].entries[u] # None
               => caches'[CACHE_NAME].entries[u] # None]_vars

\* C25 witness: a key added by a MISS is still there after a later HIT of the
\* same key has finished its revalidation
C25_Witness ==
    \E i \in Events : \E j \in Events :
        /\ i # j
        /\ tasks[i].req = tasks[j].req
        /\ tasks[i].kind = "miss" /\ tasks[i].wr = "ok"
        /\ tasks[j].kind = "hit" /\ tasks[j].bg = "done"
        /\ caches[CACHE_NAME].entries[tasks[i].req.url] # None

Other(im) == IF im = "ts" THEN "js" ELSE "ts"

\* C27: the two workers are equivalent: whatever the deployed worker did
\* with an event is what the other worker's code does with it: the same
\* intercept / pass-through decision, the same answer to a MISS whose fetch
\* failed, the same decision to store a network response on the MISS path
\* and in the revalidation.
C27_ImplementationsEquivalent ==
    \A i \in Events :
        /\ (tasks[i].kind = "pass") <=> ~InScope(Other(impl), tasks[i].req)
        /\ (tasks[i].kind = "miss" /\ tasks[i].net = NetFail
               /\ tasks[i].resp # None)
             => tasks[i].resp = MissFailure(Other(impl))
        /\ (tasks[i].kind = "miss" /\ tasks[i].net \notin {None, NetFail})
             => (tasks[i].nput = 1 <=> MissCacheable(Other(impl), tasks[i].net))
        /\ (tasks[i].kind = "hit" /\ tasks[i].net \notin {None, NetFail})
             => (tasks[i].nput = 1 <=> RevalCacheable(Other(impl), tasks[i].net))

\* C28: the refresh requests issued for one failed call stay below a fixed
\* number, here the number of refreshes the model follows: handling a 401
\* does not keep issuing POST /auth/refresh.
C28_RefreshBounded ==
    nrefresh < MaxRefreshes

\* C29: a request is sent again at most once; a request that was sent again
\* carries its _retry flag and is never awaiting a refresh; and when the
\* refresh step failed, the three cookies are cleared by the time the
\* rejection is on its way to the caller.
C29_RetryAtMostOnce ==
    /\ \A k \in 1..Len(stack) :
          /\ stack[k].nsent <= 2
          /\ stack[k].nsent = 2 =>
                (stack[k].retry /\ stack[k].st \in {"resent", "done"})
          /\ stack[k].st = "awaiting" =>
                (stack[k].retry /\ stack[k].nsent = 1)
    /\ (cause = "refresh" /\ (settled = "rejected" \/ outcome = "rejected"))
          => cookies = NoCookies

\* C29 witness: a call rejected because its refresh request was rejected,
\* with the cookies cleared and the original request sent only once
C29_Witness ==
    /\ outcome = "rejected"
    /\ cause = "refresh"
    /\ nrefresh >= 1
    /\ stack[1].nsent = 1
    /\ cookies = NoCookies

\* paths under a protected prefix
ProtectedPaths ==
    {"/dashboard", "/dashboard/scans", "/profile", "/security/alerts",
     "/subscriptions", "/settings", "/settings-old"}

\* paths under /auth/login, /auth/signup, /_next, /api, /favicon, /logo
PublicPaths ==
    {"/auth/login", "/auth/login/reset", "/auth/signup",
     "/_next/static/app.js", "/api/scans", "/favicon.ico", "/favicon-32.png",
     "/logo.svg"}

\* C30: a navigation to a path under a protected prefix that carries no
\* auth_token cookie is answered with a redirect to /auth/login whose next
\* parameter is the path; a navigation to a public path is let through
\* without the cookie being read.
C30_RouteGuard ==
    nav # NoNav =>
        /\ (nav.path \in ProtectedPaths /\ ~nav.cookie)
              => /\ nav.action = "redirect"
                 /\ nav.to = "/auth/login"
                 /\ nav.next = nav.path
        /\ nav.path \in PublicPaths
              => (nav.action = "next" /\ ~nav.inspected)

\* C30 witness: /dashboard/scans requested without the cookie and redirected
C30_Witness ==
    /\ nav.path = "/dashboard/scans"
    /\ ~nav.cookie
    /\ nav.action = "redirect"
    /\ nav.to = "/auth/login"
    /\ nav.next = "/dashboard/scans"

====
